---- MODULE Spec2Model ----
(***************************************************************************)
(* gochat: the routing and connection-lifecycle core.                      *)
(*                                                                         *)
(* One Server loop, one loop per Channel instance, one loop per Group      *)
(* instance, and per connected User an inbound task (ReadPump and the      *)
(* handlers it calls) and an outbound task (WritePump).  Every blocking    *)
(* operation or access to memory shared between tasks is one step; the     *)
(* purely local statements between two such operations belong to the step  *)
(* that precedes them.                                                     *)
(*                                                                         *)
(* Pointers to Channel and Group instances are indices into the sequences  *)
(* chans and grps (nil is 0); a pointer to a User is the name of its       *)
(* connection.  A frame on an outbound queue is represented by the         *)
(* envelope it encodes.                                                    *)
(***************************************************************************)
EXTENDS Integers, Sequences, FiniteSets, TLC

\* ------------------------------------------------------------------ bounds

\* Frames the clients send in total (all connections together).
MaxCmds == 3

\* Frames an outbound queue holds before its senders wait for WritePump (the
\* program's queues hold SendCap; a run of the model is a run of the program
\* in which no queue grows beyond MaxQueue).
MaxQueue == 1

\* Frames the clients send in total where they broadcast to groups.
MaxBroadcastCmds == 5

\* Frames the clients send in total where they join and leave groups.
MaxMembershipCmds == 4

\* Frames the clients send in total where only the registry is exercised.
MaxRegistryCmds == 3

\* Requests a Channel or Group loop has pending before its senders wait.
MaxInbox == 1

\* Frames the clients send in total where WritePump is followed step by step.
MaxOutboundCmds == 3

\* Frames the clients send in total where no user ever has a channel.
MaxNoChannelCmds == 4

\* Frames the one client sends where it floods its own queue: two more than
\* the queue holds, one WritePump has taken and one that finds the queue full.
MaxFloodCmds == 258

\* ------------------------------------------------------- program constants

nil == 0

SendCap == 256

Absent == "<nil>"

CommandUserConnect == "user-connect"
CommandMessageSend == "message-send"
CommandGroupJoin == "group-join"
CommandGroupLeave == "group-leave"

TypeTargetDirect == "direct"
TypeTargetGroup == "group"

ResponseMessageSuccess == "success"
ResponseMessageInvalidPayload == "invalidPayload"
ResponseMessageUserTargetNotConnected == "userTargetNotConnected"

MessageUserConnectSuccessful == "connected"
MessageGroupJoin == "group-joined"

TypeUserActivityChannelConnect == "user-channel-connect"
TypeUserActivityGroupJoin == "user-group-join"
TypeUserActivityGroupLeave == "user-group-leave"
TypeUserActivityMessageSend == "user-message-send"
TypeUserActivityDisconnect == "user-disconnect"

\* ------------------------------------------------------------- the inputs

\* The connections accepted (one User instance each); the client of
\* connection u names itself u in its connect payload.
Users == {"u1", "u2"}

ChannelIDs == {"c1"}

GroupIDs == {"g1"}

\* A user id no connection ever registers.
Ghost == "ghost"

NoResponse == [status |-> FALSE, message |-> Absent]

Envelope(cmd, usr, ch, grp, txt, tt, tu, tg) ==
    [command |-> cmd, user |-> usr, channel |-> ch, group |-> grp,
     text |-> txt, targetType |-> tt, targetUser |-> tu, targetGroup |-> tg,
     response |-> NoResponse]

NoMessage == Envelope(Absent, Absent, Absent, Absent, Absent, Absent, Absent, Absent)

ConnectFramesOver(u, ids) ==
    {Envelope(CommandUserConnect, u, c, Absent, Absent, Absent, Absent, Absent) :
        c \in ids \cup {Absent}}
    \cup {Envelope(CommandUserConnect, Absent, c, Absent, Absent, Absent, Absent, Absent) :
        c \in ids}

ConnectFrames(u) == ConnectFramesOver(u, ChannelIDs)

SendFrames(u) ==
    {Envelope(CommandMessageSend, Absent, Absent, Absent, "hi", TypeTargetDirect, t, Absent) :
        t \in (Users \ {u}) \cup {Ghost, Absent}}
    \cup {Envelope(CommandMessageSend, Absent, Absent, Absent, "hi", TypeTargetGroup, Absent, g) :
        g \in GroupIDs \cup {Absent}}
    \cup {Envelope(CommandMessageSend, Absent, Absent, Absent, "hi", Absent, Absent, Absent),
          Envelope(CommandMessageSend, Absent, Absent, Absent, Absent, TypeTargetDirect, Ghost, Absent)}

GroupFrames(u) ==
    {Envelope(cmd, Absent, Absent, g, Absent, Absent, Absent, Absent) :
        cmd \in {CommandGroupJoin, CommandGroupLeave}, g \in GroupIDs \cup {Absent}}

Frames(u) == ConnectFrames(u) \cup SendFrames(u) \cup GroupFrames(u)

\* ------------------------------------------------------------------ state

VARIABLES
    srvChannels,   \* Server.channels: channel id -> Channel instance
    srvInbox,      \* the message the Server loop has received and not yet handled
    chans,         \* the Channel instances: [ID, users, groups, inbox]
    grps,          \* the Group instances: [ID, users, inbox]
    user,          \* the User instances: [ID, channel, groups, send, closed, conn]
    pc,            \* where each user's inbound task is
    message,       \* the envelope each user's inbound task is handling
    local,         \* that handler's local pointer (userTarget, group) and range set
    wpc,           \* where each user's outbound task is
    budget,        \* frames the clients may still send
    panicked,      \* the process died of a send on a closed queue
    enq,           \* what the running handler of each user has enqueued, in order
    view,          \* what each client has been told: its channel id, its group ids
    pre,           \* the clients' views when the running handler's frame was read
    wr,            \* WritePump's locals: the frames in the open writer w, and n
    wire,          \* each transport: the frames owed to it, and what it was sent
    act            \* the event the activity stream delivered for the running command

vars == <<srvChannels, srvInbox, chans, grps, user, pc, message, local, wpc,
          budget, panicked, enq, view, pre, wr, wire, act>>

\* ----------------------------------------------------------------- helpers

\* make(chan []byte, 256): a send to user t proceeds while t's queue has room.
\* While t's WritePump waits in its select, the senders let it drain the queue
\* down to MaxQueue first.
HasRoom(t) ==
    /\ Len(user[t].send) < SendCap
    /\ Len(user[t].send) < MaxQueue \/ wpc[t] # "select"

\* The request queue of a Channel or Group loop takes another request.
Accepts(inbox) == Len(inbox) < MaxInbox

EmptyMap == [k \in {} |-> nil]

MapPut(m, k, v) == [x \in (DOMAIN m) \cup {k} |-> IF x = k THEN v ELSE m[x]]

MapDel(m, k) == [x \in (DOMAIN m) \ {k} |-> m[x]]

NoLocal == [ptr |-> nil, target |-> Absent, todo |-> {}]

Msg(o, u, g, c) == [op |-> o, user |-> u, group |-> g, channel |-> c]

\* NewUser
NewUser ==
    [ID |-> "", channel |-> nil, groups |-> EmptyMap, send |-> <<>>, closed |-> FALSE,
     conn |-> "open"]

\* NewChannel (the instance; its loop runs from the go statement on)
NewChannel(id) == [ID |-> id, users |-> EmptyMap, groups |-> EmptyMap, inbox |-> <<>>]

\* NewGroup
NewGroup(id) == [ID |-> id, users |-> EmptyMap, inbox |-> <<>>]

NoView == [channel |-> Absent, groups |-> {}]

\* No activity event has been delivered for the command.
NoActivity == [type |-> Absent, n |-> 0]

\* WritePump holds no writer.
NoWriter == [w |-> <<>>, n |-> 0]

\* Nothing is owed to the transport and nothing has gone wrong on it.
NoWire == [owed |-> <<>>, misordered |-> FALSE, closeFrame |-> FALSE]

InitWith(b) ==
    /\ srvChannels = EmptyMap
    /\ srvInbox = <<>>
    /\ chans = <<>>
    /\ grps = <<>>
    /\ user = [u \in Users |-> NewUser]
    /\ pc = [u \in Users |-> "read"]
    /\ message = [u \in Users |-> NoMessage]
    /\ local = [u \in Users |-> NoLocal]
    /\ wpc = [u \in Users |-> "select"]
    /\ budget = b
    /\ panicked = FALSE
    /\ enq = [u \in Users |-> <<>>]
    /\ view = [u \in Users |-> NoView]
    /\ pre = [u \in Users |-> [v \in Users |-> NoView]]
    /\ wr = [u \in Users |-> NoWriter]
    /\ wire = [u \in Users |-> NoWire]
    /\ act = [u \in Users |-> NoActivity]

Init == InitWith(MaxCmds)

\* ------------------------------------------------------------ Server actor

\* Server.findChannelByID
findChannelByID(channelID) ==
    IF channelID \in DOMAIN srvChannels THEN srvChannels[channelID] ELSE nil

\* As handleRegisterChannel, without the test for an entry already there.
handleRegisterChannel_Overwrite(channels, c) == MapPut(channels, chans[c].ID, c)

\* Server.handleRegisterChannel
handleRegisterChannel(channels, c) ==
    IF chans[c].ID \notin DOMAIN channels
    THEN MapPut(channels, chans[c].ID, c)
    ELSE channels

\* Server.handleUnregisterChannel
handleUnregisterChannel(channels, c) == MapDel(channels, chans[c].ID)

\* Server.Run: one turn of the loop on the message it received.
ServerRun ==
    /\ ~panicked
    /\ srvInbox # <<>>
    /\ srvChannels' =
         IF Head(srvInbox).op = "registerChannel"
         THEN handleRegisterChannel(srvChannels, Head(srvInbox).channel)
         ELSE handleUnregisterChannel(srvChannels, Head(srvInbox).channel)
    /\ srvInbox' = Tail(srvInbox)
    /\ UNCHANGED <<wr, wire, act, chans, grps, user, pc, message, local, wpc, budget, panicked, enq,
                   view, pre>>

\* ----------------------------------------------------------- Channel actor

\* Channel.findUserByID
findUserByID(c, userID) ==
    IF userID \in DOMAIN chans[c].users THEN chans[c].users[userID] ELSE Absent

\* Channel.findGroupByID
findGroupByID(c, groupID) ==
    IF groupID \in DOMAIN chans[c].groups THEN chans[c].groups[groupID] ELSE nil

\* Channel.handleRegisterUser
handleRegisterUserInChannel(ch, u) == [ch EXCEPT !.users = MapPut(@, user[u].ID, u)]

\* Channel.handleUnregisterUser
handleUnregisterUserInChannel(ch, u) == [ch EXCEPT !.users = MapDel(@, user[u].ID)]

\* Channel.handleRegisterGroup
handleRegisterGroup(ch, g) ==
    IF grps[g].ID \notin DOMAIN ch.groups
    THEN [ch EXCEPT !.groups = MapPut(@, grps[g].ID, g)]
    ELSE ch

\* Channel.handleUnregisterGroup
handleUnregisterGroup(ch, g) == [ch EXCEPT !.groups = MapDel(@, grps[g].ID)]

ChannelHandle(ch, m) ==
    IF m.op = "registerUser" THEN handleRegisterUserInChannel(ch, m.user)
    ELSE IF m.op = "unregisterUser" THEN handleUnregisterUserInChannel(ch, m.user)
    ELSE IF m.op = "registerGroup" THEN handleRegisterGroup(ch, m.group)
    ELSE handleUnregisterGroup(ch, m.group)

\* Channel.Run: one turn of the loop.
ChannelRun(c) ==
    /\ ~panicked
    /\ chans[c].inbox # <<>>
    /\ chans' = [chans EXCEPT ![c] =
                    [ChannelHandle(chans[c], Head(chans[c].inbox))
                        EXCEPT !.inbox = Tail(chans[c].inbox)]]
    /\ UNCHANGED <<wr, wire, act, srvChannels, srvInbox, grps, user, pc, message, local, wpc, budget,
                   panicked, enq, view, pre>>

\* ------------------------------------------------------------- Group actor

\* Group.handleRegisterUser
handleRegisterUserInGroup(gr, u) == [gr EXCEPT !.users = MapPut(@, user[u].ID, u)]

\* Group.handleUnregisterUser
handleUnregisterUserInGroup(gr, u) == [gr EXCEPT !.users = MapDel(@, user[u].ID)]

\* Group.Run: one turn of the loop.
GroupRun(g) ==
    /\ ~panicked
    /\ grps[g].inbox # <<>>
    /\ grps' = [grps EXCEPT ![g] =
                   [(IF Head(grps[g].inbox).op = "registerUser"
                     THEN handleRegisterUserInGroup(grps[g], Head(grps[g].inbox).user)
                     ELSE handleUnregisterUserInGroup(grps[g], Head(grps[g].inbox).user))
                        EXCEPT !.inbox = Tail(grps[g].inbox)]]
    /\ UNCHANGED <<wr, wire, act, srvChannels, srvInbox, chans, user, pc, message, local, wpc, budget,
                   panicked, enq, view, pre>>

\* ------------------------------------------------- the user's inbound task

\* ReadPump: a frame is read and decoded.
ReadFrame(u, m) ==
    /\ ~panicked
    /\ pc[u] = "read"
    /\ user[u].conn = "open"
    /\ budget > 0
    /\ budget' = budget - 1
    /\ message' = [message EXCEPT ![u] = m]
    /\ pc' = [pc EXCEPT ![u] = "activity"]
    /\ pre' = [pre EXCEPT ![u] = view]
    /\ act' = [act EXCEPT ![u] = NoActivity]
    /\ UNCHANGED <<enq, local>>
    /\ UNCHANGED <<wr, wire, srvChannels, srvInbox, chans, grps, user, wpc, panicked, view>>

\* ReadPump: the read fails (close, deadline, oversized frame) or the frame
\* does not decode; the deferred handleUserdisconnect runs next.
ReadError(u) ==
    /\ ~panicked
    /\ pc[u] = "read"
    /\ pc' = [pc EXCEPT ![u] = "disconnect"]
    /\ view' = [view EXCEPT ![u] = NoView]
    /\ UNCHANGED <<message, enq, local, pre>>
    /\ UNCHANGED <<wr, wire, act, srvChannels, srvInbox, chans, grps, user, wpc, budget, panicked>>

\* ReadPump's loop takes its next turn: the envelope and the locals die.
Loop(u) ==
    /\ pc' = [pc EXCEPT ![u] = "read"]
    /\ message' = [message EXCEPT ![u] = NoMessage]
    /\ local' = [local EXCEPT ![u] = NoLocal]
    /\ enq' = [enq EXCEPT ![u] = <<>>]
    /\ pre' = [pre EXCEPT ![u] = [v \in Users |-> NoView]]

\* The handler of user u returns to ReadPump's loop.
Return(u) ==
    /\ Loop(u)
    /\ act' = [act EXCEPT ![u] = NoActivity]

\* As Dispatch, without the tests of user.channel.
Dispatch_Unguarded(u) ==
    IF message[u].command = CommandUserConnect THEN "connect"
    ELSE IF message[u].command = CommandMessageSend THEN "send"
    ELSE IF message[u].command = CommandGroupJoin THEN "join"
    ELSE "leave"

\* ReadPump's switch: where the command goes once its activity is taken.
Dispatch(u) ==
    IF message[u].command = CommandUserConnect THEN "connect"
    ELSE IF user[u].channel = nil THEN "read"
    ELSE IF message[u].command = CommandMessageSend THEN "send"
    ELSE IF message[u].command = CommandGroupJoin THEN "join"
    ELSE "leave"

\* As ActivityType, with the group-leave case passing the type of group-join.
ActivityType_LeaveAsJoin(command) ==
    IF command = CommandUserConnect THEN TypeUserActivityChannelConnect
    ELSE IF command = CommandMessageSend THEN TypeUserActivityMessageSend
    ELSE TypeUserActivityGroupJoin

\* ReadPump's switch: the activity type each case gives SetActivity.
ActivityType(command) ==
    IF command = CommandUserConnect THEN TypeUserActivityChannelConnect
    ELSE IF command = CommandMessageSend THEN TypeUserActivityMessageSend
    ELSE IF command = CommandGroupJoin THEN TypeUserActivityGroupJoin
    ELSE TypeUserActivityGroupLeave

\* What the activity stream has delivered once it is handed an event of type ty.
Delivered(a, ty) == [type |-> ty, n |-> a.n + 1]

\* SetActivity: the activity event is handed to whoever reads the stream, and
\* ReadPump's switch goes on to the handler, or past it.
SetActivity(u) ==
    /\ ~panicked
    /\ pc[u] = "activity"
    /\ act' = [act EXCEPT ![u] = Delivered(@, ActivityType(message[u].command))]
    /\ IF Dispatch(u) = "read"
       THEN Loop(u)
       ELSE /\ pc' = [pc EXCEPT ![u] = Dispatch(u)]
            /\ UNCHANGED <<message, local, enq, pre>>
    /\ UNCHANGED <<wr, wire, srvChannels, srvInbox, chans, grps, user, wpc, budget, panicked,
                   view>>

\* What a client that held view v knows once it is sent the reply m.
Told(v, m) ==
    IF ~m.response.status THEN v
    ELSE IF m.command = CommandUserConnect THEN [v EXCEPT !.channel = m.channel]
    ELSE IF m.command = CommandGroupJoin THEN [v EXCEPT !.groups = @ \cup {m.group}]
    ELSE IF m.command = CommandGroupLeave THEN [v EXCEPT !.groups = @ \ {m.group}]
    ELSE v

\* The last statement of every replying handler: user.send <- message.encode()
Reply(u) ==
    /\ ~panicked
    /\ pc[u] = "reply"
    /\ HasRoom(u)
    /\ user' = [user EXCEPT ![u].send = Append(@, message[u])]
    /\ wire' = [wire EXCEPT ![u].owed = Append(@, message[u])]
    /\ view' = [view EXCEPT ![u] = Told(view[u], message[u])]
    /\ Return(u)
    /\ UNCHANGED <<wr, srvChannels, srvInbox, chans, grps, wpc, budget, panicked>>

\* As ConnectValid, testing message.User alone.
ConnectValid_UserOnly(m) == m.user # Absent

\* handleUserConnect: message.User != nil && message.Channel != nil
ConnectValid(m) == m.user # Absent /\ m.channel # Absent

InvalidPayload == [status |-> FALSE, message |-> ResponseMessageInvalidPayload]

Success == [status |-> TRUE, message |-> ResponseMessageSuccess]

\* handleUserConnect up to the lookup of the channel.
ConnectFind(u) ==
    /\ ~panicked
    /\ pc[u] = "connect"
    /\ IF ConnectValid(message[u])
       THEN /\ user' = [user EXCEPT ![u].ID = message[u].user,
                                    ![u].channel = findChannelByID(message[u].channel)]
            /\ pc' = [pc EXCEPT ![u] =
                        IF findChannelByID(message[u].channel) = nil
                        THEN "connect_new" ELSE "connect_register"]
            /\ UNCHANGED message
       ELSE /\ message' = [message EXCEPT ![u].response = InvalidPayload]
            /\ pc' = [pc EXCEPT ![u] = "reply"]
            /\ UNCHANGED user
    /\ UNCHANGED <<wr, wire, act, srvChannels, srvInbox, chans, grps, local, wpc, budget, panicked,
                   enq, view, pre>>

\* handleUserConnect: NewChannel, server.registerChannel <- channel, go Run().
ConnectNew(u) ==
    /\ ~panicked
    /\ pc[u] = "connect_new"
    /\ srvInbox = <<>>
    /\ chans' = Append(chans, NewChannel(message[u].channel))
    /\ user' = [user EXCEPT ![u].channel = Len(chans) + 1]
    /\ srvInbox' = <<Msg("registerChannel", Absent, nil, Len(chans) + 1)>>
    /\ pc' = [pc EXCEPT ![u] = "connect_register"]
    /\ UNCHANGED <<wr, wire, act, srvChannels, grps, message, local, wpc, budget, panicked, enq, view,
                   pre>>

\* handleUserConnect: user.channel.registerUser <- user, and the reply built.
ConnectRegister(u) ==
    /\ ~panicked
    /\ pc[u] = "connect_register"
    /\ Accepts(chans[user[u].channel].inbox)
    /\ chans' = [chans EXCEPT ![user[u].channel].inbox =
                    Append(@, Msg("registerUser", u, nil, nil))]
    /\ message' = [message EXCEPT ![u].text = MessageUserConnectSuccessful,
                                  ![u].response = Success]
    /\ pc' = [pc EXCEPT ![u] = "reply"]
    /\ UNCHANGED <<wr, wire, act, srvChannels, srvInbox, grps, user, local, wpc, budget, panicked, enq,
                   view, pre>>

\* ------------------------------------------------------------ message-send

SendValid(m) == m.text # Absent /\ m.targetType # Absent

\* As UserTargetNotConnected, answering a miss like a delivery.
UserTargetNotConnected_AsSuccess == Success

\* handleSendDirectMessage: the response to a target that is not in the channel
UserTargetNotConnected ==
    [status |-> FALSE, message |-> ResponseMessageUserTargetNotConnected]

\* Enqueue frame f on the outbound queue of user t, by the handler of user u.
\* A send on a closed queue panics; nothing recovers it.
SendTo(u, t, f) ==
    IF user[t].closed
    THEN /\ panicked' = TRUE
         /\ UNCHANGED <<user, enq, pre, wire>>
    ELSE /\ HasRoom(t)
         /\ user' = [user EXCEPT ![t].send = Append(@, f)]
         /\ wire' = [wire EXCEPT ![t].owed = Append(@, f)]
         /\ enq' = [enq EXCEPT ![u] = Append(@, [to |-> t, frame |-> f])]
         /\ UNCHANGED panicked

\* handleSendMessage, and handleSendDirectMessage or handlerSendGroupMessage
\* up to the lookup of the target in the channel.
SendFind(u) ==
    LET m == message[u]
        c == user[u].channel
    IN
    /\ ~panicked
    /\ pc[u] = "send"
    /\ IF ~SendValid(m)
       THEN /\ message' = [message EXCEPT ![u].response = InvalidPayload]
            /\ pc' = [pc EXCEPT ![u] = "reply"]
            /\ UNCHANGED <<local, enq, pre, act>>
       ELSE IF m.targetType = TypeTargetDirect /\ m.targetUser # Absent
       THEN IF findUserByID(c, m.targetUser) = Absent
            THEN /\ message' = [message EXCEPT ![u].response = UserTargetNotConnected,
                                              ![u].user = user[u].ID]
                 /\ pc' = [pc EXCEPT ![u] = "reply"]
                 /\ UNCHANGED <<local, enq, pre, act>>
            ELSE /\ local' = [local EXCEPT ![u].target = findUserByID(c, m.targetUser)]
                 /\ pc' = [pc EXCEPT ![u] = "dm_forward"]
                 /\ UNCHANGED <<message, enq, pre, act>>
       ELSE IF m.targetType = TypeTargetGroup /\ m.targetGroup # Absent
               /\ findGroupByID(c, m.targetGroup) # nil
       THEN /\ local' = [local EXCEPT ![u].ptr = findGroupByID(c, m.targetGroup)]
            /\ message' = [message EXCEPT ![u].user = user[u].ID]
            /\ pc' = [pc EXCEPT ![u] = "grp_range"]
            /\ UNCHANGED <<enq, pre, act>>
       ELSE Return(u)
    /\ UNCHANGED <<wr, wire, srvChannels, srvInbox, chans, grps, user, wpc, budget, panicked,
                   view>>

\* handleSendDirectMessage: userTarget.send <- message.encode(), and the
\* acknowledgement built.
DirectForward(u) ==
    /\ ~panicked
    /\ pc[u] = "dm_forward"
    /\ SendTo(u, local[u].target, message[u])
    /\ message' = [message EXCEPT ![u].user = user[u].ID,
                                  ![u].targetUser = user[local[u].target].ID,
                                  ![u].response = Success]
    /\ pc' = [pc EXCEPT ![u] = "reply"]
    /\ UNCHANGED <<wr, act, srvChannels, srvInbox, chans, grps, local, wpc, budget, view, pre>>

\* The members the broadcast of user u goes to.
GroupTargets(u, g) ==
    {grps[g].users[k] : k \in {x \in DOMAIN grps[g].users :
                                  user[grps[g].users[x]].ID # user[u].ID}}

\* handlerSendGroupMessage: the range over groupTarget.users begins.
GroupRange(u) ==
    /\ ~panicked
    /\ pc[u] = "grp_range"
    /\ IF GroupTargets(u, local[u].ptr) = {}
       THEN /\ message' = [message EXCEPT ![u].response = Success]
            /\ pc' = [pc EXCEPT ![u] = "reply"]
            /\ UNCHANGED local
       ELSE /\ local' = [local EXCEPT ![u].todo = GroupTargets(u, local[u].ptr)]
            /\ pc' = [pc EXCEPT ![u] = "grp_forward"]
            /\ UNCHANGED message
    /\ UNCHANGED <<wr, wire, act, srvChannels, srvInbox, chans, grps, user, wpc, budget, panicked, enq,
                   view, pre>>

\* handlerSendGroupMessage: userGroupTarget.send <- message.encode(), and
\* after the last one the acknowledgement built.
GroupForward(u, t) ==
    /\ ~panicked
    /\ pc[u] = "grp_forward"
    /\ t \in local[u].todo
    /\ SendTo(u, t, message[u])
    /\ local' = [local EXCEPT ![u].todo = @ \ {t}]
    /\ IF local[u].todo = {t}
       THEN /\ message' = [message EXCEPT ![u].response = Success]
            /\ pc' = [pc EXCEPT ![u] = "reply"]
       ELSE UNCHANGED <<message, pc>>
    /\ UNCHANGED <<wr, act, srvChannels, srvInbox, chans, grps, wpc, budget, view, pre>>

\* -------------------------------------------------- group-join, group-leave

\* handleGroupJoin up to the lookup (and NewGroup, go group.Run()).
JoinFind(u) ==
    LET g == findGroupByID(user[u].channel, message[u].group)
    IN
    /\ ~panicked
    /\ pc[u] = "join"
    /\ IF message[u].group = Absent
       THEN /\ Return(u)
            /\ UNCHANGED grps
       ELSE /\ pc' = [pc EXCEPT ![u] = "join_group"]
            /\ UNCHANGED <<message, enq, pre, act>>
            /\ IF g = nil
               THEN /\ grps' = Append(grps, NewGroup(message[u].group))
                    /\ local' = [local EXCEPT ![u].ptr = Len(grps) + 1]
               ELSE /\ local' = [local EXCEPT ![u].ptr = g]
                    /\ UNCHANGED grps
    /\ UNCHANGED <<wr, wire, srvChannels, srvInbox, chans, user, wpc, budget, panicked, view>>

\* handleGroupJoin: user.channel.registerGroup <- group
JoinRegisterGroup(u) ==
    /\ ~panicked
    /\ pc[u] = "join_group"
    /\ Accepts(chans[user[u].channel].inbox)
    /\ chans' = [chans EXCEPT ![user[u].channel].inbox =
                    Append(@, Msg("registerGroup", Absent, local[u].ptr, nil))]
    /\ pc' = [pc EXCEPT ![u] = "join_user"]
    /\ UNCHANGED <<wr, wire, act, srvChannels, srvInbox, grps, user, message, local, wpc, budget,
                   panicked, enq, view, pre>>

\* handleGroupJoin: group.registerUser <- user, user.groups[group.ID] = group,
\* and the reply built.
JoinRegisterUser(u) ==
    /\ ~panicked
    /\ pc[u] = "join_user"
    /\ Accepts(grps[local[u].ptr].inbox)
    /\ grps' = [grps EXCEPT ![local[u].ptr].inbox =
                   Append(@, Msg("registerUser", u, nil, nil))]
    /\ user' = [user EXCEPT ![u].groups = MapPut(@, grps[local[u].ptr].ID, local[u].ptr)]
    /\ message' = [message EXCEPT ![u].user = user[u].ID,
                                  ![u].text = MessageGroupJoin,
                                  ![u].response = Success]
    /\ pc' = [pc EXCEPT ![u] = "reply"]
    /\ UNCHANGED <<wr, wire, act, srvChannels, srvInbox, chans, local, wpc, budget, panicked, enq,
                   view, pre>>

\* The key handleGroupLeave deletes from user.groups.
LeaveKey(u, g) == user[u].ID

\* handleGroupLeave up to the lookup, and delete(user.groups, user.ID).
LeaveFind(u) ==
    LET g == findGroupByID(user[u].channel, message[u].group)
    IN
    /\ ~panicked
    /\ pc[u] = "leave"
    /\ IF message[u].group = Absent
       THEN /\ message' = [message EXCEPT ![u].response = InvalidPayload]
            /\ pc' = [pc EXCEPT ![u] = "reply"]
            /\ UNCHANGED <<user, local, enq, pre, act>>
       ELSE IF g = nil
       THEN /\ Return(u)
            /\ UNCHANGED user
       ELSE /\ user' = [user EXCEPT ![u].groups = MapDel(@, LeaveKey(u, g))]
            /\ local' = [local EXCEPT ![u].ptr = g]
            /\ pc' = [pc EXCEPT ![u] = "leave_user"]
            /\ UNCHANGED <<message, enq, pre, act>>
    /\ UNCHANGED <<wr, wire, srvChannels, srvInbox, chans, grps, wpc, budget, panicked, view>>

\* handleGroupLeave: group.unregisterUser <- user
LeaveUnregisterUser(u) ==
    /\ ~panicked
    /\ pc[u] = "leave_user"
    /\ Accepts(grps[local[u].ptr].inbox)
    /\ grps' = [grps EXCEPT ![local[u].ptr].inbox =
                   Append(@, Msg("unregisterUser", u, nil, nil))]
    /\ pc' = [pc EXCEPT ![u] = "leave_len"]
    /\ UNCHANGED <<wr, wire, act, srvChannels, srvInbox, chans, user, message, local, wpc, budget,
                   panicked, enq, view, pre>>

\* The reply handleGroupLeave builds.
LeaveReply(u) ==
    [message[u] EXCEPT !.user = user[u].ID,
                       !.group = grps[local[u].ptr].ID,
                       !.response = Success]

\* handleGroupLeave: if len(group.users) == 0
LeaveLen(u) ==
    /\ ~panicked
    /\ pc[u] = "leave_len"
    /\ IF Cardinality(DOMAIN grps[local[u].ptr].users) = 0
       THEN /\ pc' = [pc EXCEPT ![u] = "leave_group"]
            /\ UNCHANGED message
       ELSE /\ message' = [message EXCEPT ![u] = LeaveReply(u)]
            /\ pc' = [pc EXCEPT ![u] = "reply"]
    /\ UNCHANGED <<wr, wire, act, srvChannels, srvInbox, chans, grps, user, local, wpc, budget,
                   panicked, enq, view, pre>>

\* handleGroupLeave: user.channel.unregisterGroup <- group
LeaveUnregisterGroup(u) ==
    /\ ~panicked
    /\ pc[u] = "leave_group"
    /\ Accepts(chans[user[u].channel].inbox)
    /\ chans' = [chans EXCEPT ![user[u].channel].inbox =
                    Append(@, Msg("unregisterGroup", Absent, local[u].ptr, nil))]
    /\ message' = [message EXCEPT ![u] = LeaveReply(u)]
    /\ pc' = [pc EXCEPT ![u] = "reply"]
    /\ UNCHANGED <<wr, wire, act, srvChannels, srvInbox, grps, user, local, wpc, budget, panicked, enq,
                   view, pre>>

\* --------------------------------------------------------------- disconnect

\* handleUserdisconnect: SetActivity(TypeUserActivityDisconnect, nil)
DisconnectActivity(u) ==
    /\ ~panicked
    /\ pc[u] = "disconnect"
    /\ act' = [act EXCEPT ![u] = Delivered(NoActivity, TypeUserActivityDisconnect)]
    /\ pc' = [pc EXCEPT ![u] = "disc_unregister"]
    /\ UNCHANGED <<srvChannels, srvInbox, chans, grps, user, message, local, wpc,
                   budget, panicked, enq, view, pre, wr, wire>>

\* handleUserdisconnect: user.channel.unregisterUser <- user, if there is one
DisconnectUnregister(u) ==
    /\ ~panicked
    /\ pc[u] = "disc_unregister"
    /\ user[u].channel # nil => Accepts(chans[user[u].channel].inbox)
    /\ IF user[u].channel # nil
       THEN chans' = [chans EXCEPT ![user[u].channel].inbox =
                         Append(@, Msg("unregisterUser", u, nil, nil))]
       ELSE UNCHANGED chans
    /\ pc' = [pc EXCEPT ![u] = "disc_close"]
    /\ UNCHANGED <<srvChannels, srvInbox, grps, user, message, local, wpc, budget,
                   panicked, enq, view, pre, wr, wire, act>>

\* handleUserdisconnect: close(user.send)
DisconnectClose(u) ==
    /\ ~panicked
    /\ pc[u] = "disc_close"
    /\ user' = [user EXCEPT ![u].closed = TRUE]
    /\ pc' = [pc EXCEPT ![u] = "disc_conn"]
    /\ UNCHANGED <<srvChannels, srvInbox, chans, grps, message, local, wpc, budget,
                   panicked, enq, view, pre, wr, wire, act>>

\* handleUserdisconnect: user.conn.Close(), and ReadPump has returned.
DisconnectConnClose(u) ==
    /\ ~panicked
    /\ pc[u] = "disc_conn"
    /\ user' = [user EXCEPT ![u].conn = "closed"]
    /\ pc' = [pc EXCEPT ![u] = "done"]
    /\ UNCHANGED <<srvChannels, srvInbox, chans, grps, message, local, wpc, budget,
                   panicked, enq, view, pre, wr, wire, act>>

\* ------------------------------------------------ the user's outbound task

\* The transport has been written frames: they are the frames owed to it
\* longest, in the order they are owed, or the write is out of order.
Written(wi, frames) ==
    IF Len(frames) <= Len(wi.owed) /\ SubSeq(wi.owed, 1, Len(frames)) = frames
    THEN [wi EXCEPT !.owed = SubSeq(@, Len(frames) + 1, Len(@))]
    ELSE [wi EXCEPT !.misordered = TRUE]

\* WritePump: a queued frame and everything queued with it go out in one
\* write (the steps WriteReceive .. WriteFlush with no send in between).
WriteFrames(u) ==
    /\ ~panicked
    /\ wpc[u] = "select"
    /\ user[u].send # <<>>
    /\ user' = [user EXCEPT ![u].send = <<>>]
    /\ wire' = [wire EXCEPT ![u] = Written(@, user[u].send)]
    /\ UNCHANGED <<srvChannels, srvInbox, chans, grps, pc, message, local, wpc, budget,
                   panicked, enq, view, pre, wr, act>>

\* WritePump: message, ok := <-user.send with a frame; NextWriter; w.Write(message)
WriteReceive(u) ==
    /\ ~panicked
    /\ wpc[u] = "select"
    /\ user[u].send # <<>>
    /\ wr' = [wr EXCEPT ![u] = [w |-> <<Head(user[u].send)>>, n |-> 0]]
    /\ user' = [user EXCEPT ![u].send = Tail(@)]
    /\ wpc' = [wpc EXCEPT ![u] = "writer"]
    /\ UNCHANGED <<srvChannels, srvInbox, chans, grps, pc, message, local, budget,
                   panicked, enq, view, pre, wire, act>>

\* WritePump: n := len(user.send)
WriteLen(u) ==
    /\ ~panicked
    /\ wpc[u] = "writer"
    /\ wr' = [wr EXCEPT ![u].n = Len(user[u].send)]
    /\ wpc' = [wpc EXCEPT ![u] = "attach"]
    /\ UNCHANGED <<srvChannels, srvInbox, chans, grps, user, pc, message, local, budget,
                   panicked, enq, view, pre, wire, act>>

\* As Attach, with the frame put in front of what the writer holds.
Attach_InFront(w, f) == <<f>> \o w

\* WritePump: w.Write(newline); w.Write(<-user.send)
Attach(w, f) == Append(w, f)

\* WritePump: one turn of the loop that attaches the queued frames.
WriteQueued(u) ==
    /\ ~panicked
    /\ wpc[u] = "attach"
    /\ wr[u].n > 0
    /\ wr' = [wr EXCEPT ![u] = [w |-> Attach(@.w, Head(user[u].send)), n |-> @.n - 1]]
    /\ user' = [user EXCEPT ![u].send = Tail(@)]
    /\ UNCHANGED <<srvChannels, srvInbox, chans, grps, pc, message, local, wpc, budget,
                   panicked, enq, view, pre, wire, act>>

\* WritePump: w.Close() sends the write, and the loop takes its next turn.
WriteFlush(u) ==
    /\ ~panicked
    /\ wpc[u] = "attach"
    /\ wr[u].n = 0
    /\ user[u].conn = "open"
    /\ wire' = [wire EXCEPT ![u] = Written(@, wr[u].w)]
    /\ wr' = [wr EXCEPT ![u] = NoWriter]
    /\ wpc' = [wpc EXCEPT ![u] = "select"]
    /\ UNCHANGED <<srvChannels, srvInbox, chans, grps, user, pc, message, local, budget,
                   panicked, enq, view, pre, act>>

\* WritePump returns on an error; the deferred user.conn.Close() runs.
WriteReturn(u) ==
    /\ wr' = [wr EXCEPT ![u] = NoWriter]
    /\ user' = [user EXCEPT ![u].conn = "closed"]
    /\ wpc' = [wpc EXCEPT ![u] = "failed"]
    /\ UNCHANGED <<srvChannels, srvInbox, chans, grps, pc, message, local, budget,
                   panicked, enq, view, pre, wire, act>>

\* WritePump: w.Close() fails (the write deadline passes, the peer is gone).
WriteFail(u) ==
    /\ ~panicked
    /\ wpc[u] = "attach"
    /\ wr[u].n = 0
    /\ WriteReturn(u)

\* WritePump: the ticker fires and the ping cannot be written.
WritePingFail(u) ==
    /\ ~panicked
    /\ wpc[u] = "select"
    /\ WriteReturn(u)

\* WritePump: the queue is closed and empty; the close frame is written, if
\* the transport is still open, and the task returns (user.conn.Close()).
WriteClose(u) ==
    /\ ~panicked
    /\ wpc[u] = "select"
    /\ user[u].closed
    /\ user[u].send = <<>>
    /\ wire' = [wire EXCEPT ![u].closeFrame = (user[u].conn = "open")]
    /\ user' = [user EXCEPT ![u].conn = "closed"]
    /\ wpc' = [wpc EXCEPT ![u] = "done"]
    /\ UNCHANGED <<srvChannels, srvInbox, chans, grps, pc, message, local, budget,
                   panicked, enq, view, pre, wr, act>>

\* The clients connect, send direct messages and disconnect.
DirectFrames(u) ==
    ConnectFrames(u) \cup {m \in SendFrames(u) : m.targetType # TypeTargetGroup}

Next ==
    \/ ServerRun
    \/ \E c \in DOMAIN chans : ChannelRun(c)
    \/ \E u \in Users : \E m \in DirectFrames(u) : ReadFrame(u, m)
    \/ \E u \in Users : ReadError(u)
    \/ \E u \in Users : SetActivity(u)
    \/ \E u \in Users : ConnectFind(u)
    \/ \E u \in Users : ConnectNew(u)
    \/ \E u \in Users : ConnectRegister(u)
    \/ \E u \in Users : SendFind(u)
    \/ \E u \in Users : DirectForward(u)
    \/ \E u \in Users : Reply(u)
    \/ \E u \in Users : DisconnectActivity(u)
    \/ \E u \in Users : DisconnectUnregister(u)
    \/ \E u \in Users : DisconnectClose(u)
    \/ \E u \in Users : DisconnectConnClose(u)
    \/ \E u \in Users : WriteFrames(u)
    \/ \E u \in Users : WriteClose(u)

Spec == Init /\ [][Next]_vars

\* The clients connect, join groups and send to groups.
BroadcastFrames(u) ==
    {m \in ConnectFrames(u) : ConnectValid(m)}
    \cup {m \in GroupFrames(u) : m.command = CommandGroupJoin /\ m.group # Absent}
    \cup {m \in SendFrames(u) : m.targetGroup # Absent}

InitBroadcast == InitWith(MaxBroadcastCmds)

NextBroadcast ==
    \/ ServerRun
    \/ \E c \in DOMAIN chans : ChannelRun(c)
    \/ \E g \in DOMAIN grps : GroupRun(g)
    \/ \E u \in Users : \E m \in BroadcastFrames(u) : ReadFrame(u, m)
    \/ \E u \in Users : SetActivity(u)
    \/ \E u \in Users : ConnectFind(u)
    \/ \E u \in Users : ConnectNew(u)
    \/ \E u \in Users : ConnectRegister(u)
    \/ \E u \in Users : JoinFind(u)
    \/ \E u \in Users : JoinRegisterGroup(u)
    \/ \E u \in Users : JoinRegisterUser(u)
    \/ \E u \in Users : SendFind(u)
    \/ \E u \in Users : GroupRange(u)
    \/ \E u \in Users : \E t \in Users : GroupForward(u, t)
    \/ \E u \in Users : Reply(u)
    \/ \E u \in Users : WriteFrames(u)

SpecBroadcast == InitBroadcast /\ [][NextBroadcast]_vars

\* The clients connect, join and leave groups and disconnect.
MembershipFrames(u) ==
    {m \in ConnectFrames(u) : ConnectValid(m)} \cup GroupFrames(u)

InitMembership == InitWith(MaxMembershipCmds)

NextMembership ==
    \/ ServerRun
    \/ \E c \in DOMAIN chans : ChannelRun(c)
    \/ \E g \in DOMAIN grps : GroupRun(g)
    \/ \E u \in Users : \E m \in MembershipFrames(u) : ReadFrame(u, m)
    \/ \E u \in Users : ReadError(u)
    \/ \E u \in Users : SetActivity(u)
    \/ \E u \in Users : ConnectFind(u)
    \/ \E u \in Users : ConnectNew(u)
    \/ \E u \in Users : ConnectRegister(u)
    \/ \E u \in Users : JoinFind(u)
    \/ \E u \in Users : JoinRegisterGroup(u)
    \/ \E u \in Users : JoinRegisterUser(u)
    \/ \E u \in Users : LeaveFind(u)
    \/ \E u \in Users : LeaveUnregisterUser(u)
    \/ \E u \in Users : LeaveLen(u)
    \/ \E u \in Users : LeaveUnregisterGroup(u)
    \/ \E u \in Users : Reply(u)
    \/ \E u \in Users : DisconnectActivity(u)
    \/ \E u \in Users : DisconnectUnregister(u)
    \/ \E u \in Users : DisconnectClose(u)
    \/ \E u \in Users : DisconnectConnClose(u)
    \/ \E u \in Users : WriteFrames(u)
    \/ \E u \in Users : WriteClose(u)

SpecMembership == InitMembership /\ [][NextMembership]_vars

\* The connections only connect, and the Server loop is also sent register
\* messages for instances it has already been sent.
RegistryChannelIDs == {"c1", "c2"}

RegistryFrames(u) == {m \in ConnectFramesOver(u, RegistryChannelIDs) : ConnectValid(m)}

InitRegistry == InitWith(MaxRegistryCmds)

\* server.registerChannel <- channel, by any sender, for an instance that exists.
RegisterAgain(c) ==
    /\ ~panicked
    /\ srvInbox = <<>>
    /\ srvInbox' = <<Msg("registerChannel", Absent, nil, c)>>
    /\ UNCHANGED <<wr, wire, act, srvChannels, chans, grps, user, pc, message, local, wpc, budget,
                   panicked, enq, view, pre>>

NextRegistry ==
    \/ ServerRun
    \/ \E c \in DOMAIN chans : ChannelRun(c)
    \/ \E c \in DOMAIN chans : RegisterAgain(c)
    \/ \E u \in Users : \E m \in RegistryFrames(u) : ReadFrame(u, m)
    \/ \E u \in Users : SetActivity(u)
    \/ \E u \in Users : ConnectFind(u)
    \/ \E u \in Users : ConnectNew(u)
    \/ \E u \in Users : ConnectRegister(u)
    \/ \E u \in Users : Reply(u)
    \/ \E u \in Users : WriteFrames(u)

SpecRegistry == InitRegistry /\ [][NextRegistry]_vars

\* The clients connect and send direct messages, and WritePump is followed
\* statement by statement.
InitOutbound == InitWith(MaxOutboundCmds)

NextOutbound ==
    \/ ServerRun
    \/ \E c \in DOMAIN chans : ChannelRun(c)
    \/ \E u \in Users : \E m \in DirectFrames(u) : ReadFrame(u, m)
    \/ \E u \in Users : SetActivity(u)
    \/ \E u \in Users : ConnectFind(u)
    \/ \E u \in Users : ConnectNew(u)
    \/ \E u \in Users : ConnectRegister(u)
    \/ \E u \in Users : SendFind(u)
    \/ \E u \in Users : DirectForward(u)
    \/ \E u \in Users : Reply(u)
    \/ \E u \in Users : WriteReceive(u)
    \/ \E u \in Users : WriteLen(u)
    \/ \E u \in Users : WriteQueued(u)
    \/ \E u \in Users : WriteFlush(u)
    \/ \E u \in Users : WriteFail(u)

SpecOutbound == InitOutbound /\ [][NextOutbound]_vars

\* The clients send every command, but no connect that names both a user
\* and a channel: no user ever has a channel.
NoChannelFrames(u) ==
    {m \in Frames(u) : m.command = CommandUserConnect => ~ConnectValid(m)}

InitNoChannel == InitWith(MaxNoChannelCmds)

NextNoChannel ==
    \/ \E u \in Users : \E m \in NoChannelFrames(u) : ReadFrame(u, m)
    \/ \E u \in Users : ReadError(u)
    \/ \E u \in Users : SetActivity(u)
    \/ \E u \in Users : ConnectFind(u)
    \/ \E u \in Users : Reply(u)
    \/ \E u \in Users : DisconnectActivity(u)
    \/ \E u \in Users : DisconnectUnregister(u)
    \/ \E u \in Users : DisconnectClose(u)
    \/ \E u \in Users : DisconnectConnClose(u)
    \/ \E u \in Users : WriteFrames(u)
    \/ \E u \in Users : WriteClose(u)

SpecNoChannel == InitNoChannel /\ [][NextNoChannel]_vars

\* One client sends command after command (connects without a channel, each
\* answered on its own queue) and does not read; a write of WritePump is held
\* up and in the end fails, or a ping does.
FloodUsers == {"u1"}

FloodFrames(u) == {m \in ConnectFrames(u) : m.user # Absent /\ m.channel = Absent}

InitFlood == InitWith(MaxFloodCmds)

NextFlood ==
    \/ \E u \in FloodUsers : \E m \in FloodFrames(u) : ReadFrame(u, m)
    \/ \E u \in FloodUsers : ReadError(u)
    \/ \E u \in FloodUsers : SetActivity(u)
    \/ \E u \in FloodUsers : ConnectFind(u)
    \/ \E u \in FloodUsers : Reply(u)
    \/ \E u \in FloodUsers : DisconnectActivity(u)
    \/ \E u \in FloodUsers : DisconnectUnregister(u)
    \/ \E u \in FloodUsers : DisconnectClose(u)
    \/ \E u \in FloodUsers : DisconnectConnClose(u)
    \/ \E u \in FloodUsers : WriteReceive(u)
    \/ \E u \in FloodUsers : WriteLen(u)
    \/ \E u \in FloodUsers : WriteFail(u)
    \/ \E u \in FloodUsers : WritePingFail(u)
    \/ \E u \in FloodUsers : WriteClose(u)

SpecFlood == InitFlood /\ [][NextFlood]_vars

\* ------------------------------------------------------------------ claims

\* No request is pending anywhere and no handler is running.
Quiescent ==
    /\ srvInbox = <<>>
    /\ \A c \in DOMAIN chans : chans[c].inbox = <<>>
    /\ \A g \in DOMAIN grps : grps[g].inbox = <<>>
    /\ \A u \in Users : pc[u] \in {"read", "done"}

\* The inbound task of u leaves a handler and is back in ReadPump's loop.
Returns(u) ==
    /\ pc[u] \in {"activity", "connect", "connect_new", "connect_register", "send",
                  "dm_forward", "grp_range", "grp_forward", "join", "join_group",
                  "join_user", "leave", "leave_user", "leave_len", "leave_group", "reply"}
    /\ pc'[u] = "read"

\* The frames in q that were enqueued on the queue of t.
Copies(q, t) == {i \in DOMAIN q : q[i].to = t}

\* C1: for all interleavings of connect commands naming one channel id, exactly
\* one Channel instance exists for the id, and once everything has settled every
\* connected user points at, and is registered in, the instance the Server holds.
C1_OneChannelInstance ==
    /\ \A i, j \in DOMAIN chans : chans[i].ID = chans[j].ID => i = j
    /\ Quiescent =>
         \A u \in Users : view[u].channel # Absent =>
            /\ user[u].channel = findChannelByID(view[u].channel)
            /\ findUserByID(user[u].channel, user[u].ID) = u

\* C2: a user's outbound queue is closed once, by its own disconnect path, and
\* no task sends on it after it has been closed.
C2_NoSendAfterClose ==
    /\ ~panicked
    /\ \A u \in Users : user[u].closed => pc[u] \in {"disc_conn", "done"}
    /\ \A u \in Users :
         /\ pc[u] = "dm_forward" => ~user[local[u].target].closed
         /\ pc[u] = "grp_forward" => \A t \in local[u].todo : ~user[t].closed
         /\ pc[u] = "reply" => ~user[u].closed

\* The next statement of u's inbound task reads Server.channels.
ReadsServerMap(u) == pc[u] = "connect" /\ ConnectValid(message[u])

\* The next statement of u's inbound task reads the users or groups of channel c.
ReadsChannelMap(u, c) ==
    /\ user[u].channel = c
    /\ \/ /\ pc[u] = "send"
          /\ SendValid(message[u])
          /\ \/ message[u].targetType = TypeTargetDirect /\ message[u].targetUser # Absent
             \/ message[u].targetType = TypeTargetGroup /\ message[u].targetGroup # Absent
       \/ pc[u] \in {"join", "leave"} /\ message[u].group # Absent

\* The next statement of u's inbound task reads the users of group g.
ReadsGroupMap(u, g) == local[u].ptr = g /\ pc[u] \in {"grp_range", "leave_len"}

\* C3: no user inbound task reads or writes a map of the Server, a Channel or
\* a Group while the loop that owns the map has a request to handle.
C3_NoForeignMapAccess ==
    \A u \in Users :
        /\ ~(ReadsServerMap(u) /\ srvInbox # <<>>)
        /\ \A c \in DOMAIN chans : ~(ReadsChannelMap(u, c) /\ chans[c].inbox # <<>>)
        /\ \A g \in DOMAIN grps : ~(ReadsGroupMap(u, g) /\ grps[g].inbox # <<>>)

\* No other client has ever joined a group or is joining one.
OthersNeverJoined(u) ==
    \A v \in Users \ {u} :
        /\ user[v].groups = EmptyMap
        /\ view[v].groups = {}
        /\ pc[v] \notin {"join", "join_group", "join_user"}

\* C4: when the only member of a group is sent the success reply to its
\* groupLeave, the group id no longer resolves in the channel; and a groupJoin
\* for a group id that has no member creates a fresh Group instance.
C4_LastLeaveRemovesGroup ==
    [][\A u \in Users :
        /\ ( /\ pc[u] = "reply" /\ pc'[u] = "read"
             /\ message[u].command = CommandGroupLeave
             /\ message[u].response.status
             /\ message[u].group \in view[u].groups
             /\ OthersNeverJoined(u) )
           => message[u].group \notin DOMAIN chans'[user[u].channel].groups
        /\ ( /\ pc[u] = "join" /\ pc'[u] = "join_group"
             /\ message[u].group \notin view[u].groups
             /\ OthersNeverJoined(u) )
           => Len(grps') = Len(grps) + 1
      ]_vars

\* When the frame u is handling was read, u and v had both been told they are
\* connected to the same channel, and v has been told nothing else since; and
\* they hold the same Channel instance.
BothConnected(u, v) ==
    /\ u # v
    /\ pre[u][u].channel # Absent
    /\ pre[u][v].channel = pre[u][u].channel
    /\ view[v] = pre[u][v]
    /\ user[u].channel = user[v].channel

\* C5: if u and v are connected to one channel and both have joined group g, a
\* send of u to g puts exactly one copy on v's queue, no copy on u's own queue,
\* and one success acknowledgement on u's queue.
C5_BroadcastReachesMembers ==
    [][\A u, v \in Users :
        ( /\ Returns(u)
          /\ message[u].command = CommandMessageSend
          /\ message[u].targetType = TypeTargetGroup
          /\ BothConnected(u, v)
          /\ message[u].targetGroup \in pre[u][u].groups \cap pre[u][v].groups )
        => /\ pc[u] = "reply"
           /\ message[u].response = Success
           /\ Cardinality(Copies(enq[u], v)) = 1
           /\ Copies(enq[u], u) = {}
           /\ user'[u].send = Append(user[u].send, message[u])
      ]_vars

\* C6: if u and v have both been told they are connected to channel c1, a
\* direct send of u to v's id puts exactly one copy on v's queue and one
\* success acknowledgement on u's queue, and nothing else on any queue.
C6_DirectReachesTarget ==
    [][\A u, v \in Users :
        ( /\ Returns(u)
          /\ message[u].command = CommandMessageSend
          /\ message[u].targetType = TypeTargetDirect
          /\ message[u].text # Absent
          /\ message[u].targetUser = v
          /\ BothConnected(u, v) )
        => /\ pc[u] = "reply"
           /\ message[u].response = Success
           /\ Len(enq[u]) = 1
           /\ enq[u][1].to = v
           /\ enq[u][1].frame.response = NoResponse
           /\ user'[u].send = Append(user[u].send, message[u])
      ]_vars

\* C7: a direct send whose target id is not in the users of the sender's
\* channel puts one response, status false and userTargetNotConnected, on the
\* sender's queue, and changes no other queue and no registry or membership.
C7_DirectMiss ==
    [][\A u \in Users :
        /\ ( /\ pc[u] = "send" /\ pc'[u] # "send"
             /\ message[u].text # Absent
             /\ message[u].targetType = TypeTargetDirect
             /\ message[u].targetUser # Absent
             /\ message[u].targetUser \notin DOMAIN chans[user[u].channel].users )
           => /\ pc'[u] = "reply"
              /\ message'[u].response =
                    [status |-> FALSE, message |-> ResponseMessageUserTargetNotConnected]
              /\ enq'[u] = <<>>
              /\ UNCHANGED <<srvChannels, srvInbox, chans, grps, user>>
        /\ ( /\ pc[u] = "reply" /\ pc'[u] # "reply"
             /\ message[u].response.message = ResponseMessageUserTargetNotConnected )
           => /\ pc'[u] = "read"
              /\ enq[u] = <<>>
              /\ user' = [user EXCEPT ![u].send = Append(@, message[u])]
              /\ UNCHANGED <<srvChannels, srvInbox, chans, grps>>
      ]_vars

\* A userTargetNotConnected response has been put on its sender's queue.
C7_Witness ==
    \E u \in Users : \E i \in DOMAIN user[u].send :
        /\ user[u].send[i].response.message = ResponseMessageUserTargetNotConnected
        /\ pc[u] = "read"

\* C8: a connect command without the channel field or without the user field
\* puts one response, status false and invalidPayload, on the sender's queue
\* and changes nothing else: no identity, no channel, no registration.
C8_InvalidConnect ==
    [][\A u \in Users :
        /\ ( /\ pc[u] = "connect" /\ pc'[u] # "connect"
             /\ (message[u].user = Absent \/ message[u].channel = Absent) )
           => /\ pc'[u] = "reply"
              /\ message'[u].response =
                    [status |-> FALSE, message |-> ResponseMessageInvalidPayload]
              /\ enq'[u] = <<>>
              /\ UNCHANGED <<srvChannels, srvInbox, chans, grps, user>>
        /\ ( /\ pc[u] = "reply" /\ pc'[u] # "reply"
             /\ message[u].command = CommandUserConnect
             /\ (message[u].user = Absent \/ message[u].channel = Absent) )
           => /\ pc'[u] = "read"
              /\ message[u].response =
                    [status |-> FALSE, message |-> ResponseMessageInvalidPayload]
              /\ enq[u] = <<>>
              /\ user' = [user EXCEPT ![u].send = Append(@, message[u])]
              /\ UNCHANGED <<srvChannels, srvInbox, chans, grps, view>>
      ]_vars

\* An invalidPayload response to a connect command is on its sender's queue,
\* and the sender has no identity and no channel.
C8_Witness ==
    \E u \in Users : \E i \in DOMAIN user[u].send :
        /\ user[u].send[i].command = CommandUserConnect
        /\ user[u].send[i].response.message = ResponseMessageInvalidPayload
        /\ pc[u] = "read"
        /\ user[u].ID = "" /\ user[u].channel = nil

\* C9: a register message for a channel id the registry holds leaves the
\* registry as it is (the instance registered first is kept), one for a new id
\* adds that entry only, and every entry is keyed by the id of its instance.
C9_RegisterIdempotent ==
    /\ [](\A k \in DOMAIN srvChannels : chans[srvChannels[k]].ID = k)
    /\ [][(srvInbox # <<>> /\ srvInbox' = <<>> /\ Head(srvInbox).op = "registerChannel")
          => /\ chans[Head(srvInbox).channel].ID \in DOMAIN srvChannels
                => srvChannels' = srvChannels
             /\ \A k \in DOMAIN srvChannels :
                   k \in DOMAIN srvChannels' /\ srvChannels'[k] = srvChannels[k]
             /\ DOMAIN srvChannels' =
                   DOMAIN srvChannels \cup {chans[Head(srvInbox).channel].ID}
         ]_vars

\* The Server loop has handled the register messages of two instances with one
\* id, and holds the first.
C9_Witness ==
    /\ srvInbox = <<>>
    /\ \E i, j \in DOMAIN chans :
          /\ i < j
          /\ chans[i].ID = chans[j].ID
          /\ chans[i].ID \in DOMAIN srvChannels
          /\ srvChannels[chans[i].ID] = i

\* The users a map of users holds.
Members(m) == {m[k] : k \in DOMAIN m}

\* C10: the members of every group registered in a channel are users of that
\* channel.
C10_GroupWithinChannel ==
    \A c \in DOMAIN chans : \A k \in DOMAIN chans[c].groups :
        Members(grps[chans[c].groups[k]].users) \subseteq Members(chans[c].users)

\* The Channel instances that hold user u among their users.
ChannelsOf(u) == {c \in DOMAIN chans : u \in Members(chans[c].users)}

\* C11: a user is among the users of at most one channel, and that channel is
\* the one its user.channel records; stated for the states in which every
\* request has been handled and no handler is running.
C11_AtMostOneChannel ==
    Quiescent => \A u \in Users : ChannelsOf(u) \subseteq {user[u].channel}

\* C12: what WritePump writes to a user's transport are the frames enqueued
\* on the user's queue, in the order they were enqueued, each once: every write
\* is of the frames owed longest, in order, and while WritePump runs the frames
\* owed are those in its writer followed by those in the queue.
C12_WireOrder ==
    \A u \in Users :
        /\ ~wire[u].misordered
        /\ wpc[u] # "failed" => wire[u].owed = wr[u].w \o user[u].send

\* WritePump has attached a queued frame to the frame it received, both are
\* about to go out in one write, and a frame enqueued since waits in the queue.
C12_Witness ==
    \E u \in Users :
        /\ wpc[u] = "attach"
        /\ wr[u].n = 0
        /\ Len(wr[u].w) >= 2
        /\ wr[u].w[1] # wr[u].w[2]
        /\ user[u].send # <<>>

\* The command m lacks a field that its kind requires.
MissesField(m) ==
    \/ m.command = CommandUserConnect /\ (m.user = Absent \/ m.channel = Absent)
    \/ /\ m.command = CommandMessageSend
       /\ \/ m.text = Absent
          \/ m.targetType = Absent
          \/ m.targetType = TypeTargetDirect /\ m.targetUser = Absent
          \/ m.targetType = TypeTargetGroup /\ m.targetGroup = Absent
    \/ m.command \in {CommandGroupJoin, CommandGroupLeave} /\ m.group = Absent

\* C13: when the handler of a command that lacks a required field returns, it
\* returns from sending its sender one response with status false and a code,
\* it has enqueued nothing else, and the inbound task reads on.
C13_MissingFieldAnswered ==
    [][\A u \in Users :
        (Returns(u) /\ pc[u] # "activity" /\ MissesField(message[u]))
        => /\ pc[u] = "reply"
           /\ ~message[u].response.status
           /\ message[u].response.message \in
                 {ResponseMessageInvalidPayload, ResponseMessageUserTargetNotConnected}
           /\ enq[u] = <<>>
           /\ user'[u].send = Append(user[u].send, message[u])
      ]_vars

\* C14: a connect handler that has created a channel never waits at its send
\* on server.registerChannel: whenever it is at the send, the send can proceed.
C14_RegisterNeverWaits ==
    \A u \in Users : pc[u] = "connect_new" => ENABLED ConnectNew(u)

\* C15: once the inbound task has left its loop, the disconnect event is
\* delivered before anything else, the queue is closed only after the
\* unregistration step, the inbound task closes the transport only after it has
\* closed the queue, and the outbound task returns from a closed, drained queue
\* having written the close frame to the transport.
C15_DisconnectSequence ==
    \A u \in Users :
        /\ pc[u] \in {"disc_unregister", "disc_close", "disc_conn", "done"}
              => act[u] = [type |-> TypeUserActivityDisconnect, n |-> 1]
        /\ user[u].closed => pc[u] \in {"disc_conn", "done"}
        /\ (user[u].conn = "closed" /\ wpc[u] = "select")
              => pc[u] = "done" /\ user[u].closed
        /\ wpc[u] = "done"
              => /\ user[u].closed
                 /\ user[u].send = <<>>
                 /\ wire[u].closeFrame

\* The one event the activity stream is to deliver for command m.
EventOf(m) ==
    [type |-> CASE m.command = CommandUserConnect -> TypeUserActivityChannelConnect
                [] m.command = CommandMessageSend -> TypeUserActivityMessageSend
                [] m.command = CommandGroupJoin -> TypeUserActivityGroupJoin
                [] m.command = CommandGroupLeave -> TypeUserActivityGroupLeave,
     n |-> 1]

\* The inbound task of u is inside the handler of a command.
InHandler(u) ==
    pc[u] \in {"connect", "connect_new", "connect_register", "send", "dm_forward",
               "grp_range", "grp_forward", "join", "join_group", "join_user", "leave",
               "leave_user", "leave_len", "leave_group", "reply"}

C17_NoChannelNoHandler ==
    [][\A u \in Users :
        ( /\ pc[u] = "activity" /\ pc'[u] # "activity"
          /\ user[u].channel = nil
          /\ message[u].command \in
                {CommandMessageSend, CommandGroupJoin, CommandGroupLeave} )
        => /\ pc'[u] = "read"
           /\ user[u].conn = "open"
           /\ UNCHANGED <<srvChannels, srvInbox, chans, grps, user, wire, view>>
      ]_vars

\* A user without a channel is back at its read after a group-join command:
\* its event was delivered, nothing is or was owed to its transport, and
\* another user's send command has gone the same way.
C17_Witness ==
    \E u, v \in Users :
        /\ pc[u] = "read" /\ pc[v] = "read"
        /\ user[u].channel = nil /\ user[v].channel = nil
        /\ act[u] = [type |-> TypeUserActivityGroupJoin, n |-> 1]
        /\ act[v] = [type |-> TypeUserActivityMessageSend, n |-> 1]
        /\ user[u].send = <<>> /\ wire[u].owed = <<>>
        /\ user[u].conn = "open" /\ user[v].conn = "open"

\* C18: where one Channel instance is all there is, once every request has
\* been handled, every user that was answered success to a group-join is a
\* member of the Group instance that the id resolves to in the channel (no user
\* is a member only of an instance the channel does not hold).
C18_OneGroupInstance ==
    (Quiescent /\ Len(chans) = 1) =>
        \A u \in Users : \A g \in view[u].groups :
            /\ findGroupByID(user[u].channel, g) # nil
            /\ u \in Members(grps[findGroupByID(user[u].channel, g)].users)

\* C20: between two commands, the keys of a user's user.groups are the ids of
\* the groups it was answered success to a group-join for and has not been
\* answered success to a group-leave for since.
C20_JoinedSetKeys ==
    \A u \in Users : pc[u] = "read" => DOMAIN user[u].groups = view[u].groups

\* C19: once a user's outbound task has returned on a failed write or ping, its
\* inbound task is never held at a send on its own queue: where it is at the
\* send of a response, the queue has room for it (the queue is not drained any
\* more, so a send that finds it full would wait for ever, and the disconnect
\* sequence would never run).
C19_NoSendOnDeadQueue ==
    \A u \in Users : (wpc[u] = "failed" /\ pc[u] = "reply") => ENABLED Reply(u)

====
